---------------------------- MODULE Spec2Model ----------------------------
(***************************************************************************)
(* ASCII tree converter: the two scripts of the repository, app.py and     *)
(* refined-tree-converter.py.  Each script parses an ASCII tree into a     *)
(* forest of nodes (TreeParser), renders the forest back to text           *)
(* (print_structure) and materializes it on disk (FolderCreator).          *)
(*                                                                         *)
(* Text is modelled character by character: a string is a sequence of      *)
(* character tokens, a text is a sequence of lines.  The variable impl     *)
(* says which of the two scripts is running.                               *)
(***************************************************************************)
EXTENDS Integers, Sequences, FiniteSets, TLC

VARIABLES
    impl,       \* "app" | "refined": the script that runs
    text,       \* tree_string, as its splitlines(): the input, never changed
    pc,         \* position of the run
    lines,      \* parse_tree_from_string: the lines the for loop has left
    stack,      \* parse_tree_from_string: the frame stack
    nodes,      \* the nodes created so far; parent = 0 is the structure list
    line,       \* the line last handed to _process_line
    result,     \* what _process_line returned for it
    rendered,   \* the lines print_structure printed
    reparsed,   \* the nodes of parse_tree_from_string(rendered)
    dry_run,    \* FolderCreator.dry_run
    denied,     \* paths at which the operating system refuses to create
    fs0,        \* the filesystem when FolderCreator was constructed
    fs,         \* the filesystem now
    fs1,        \* the filesystem when the first create_structure ended
    pass,       \* 0: not materializing, 1: first run, 2: second run
    cstack,     \* create_structure: the frames of the recursion
    lastOp      \* the last item of create_structure: what its path held before, how it ended

vars == << impl, text, pc, lines, stack, nodes, line, result, rendered,
           reparsed, dry_run, denied, fs0, fs, fs1, pass, cstack, lastOp >>

parseVars == << lines, stack, nodes, line, result >>
renderVars == << rendered, reparsed >>
createVars == << dry_run, denied, fs0, fs, fs1, pass, cstack, lastOp >>

---------------------------------------------------------------------------
(* Characters.  The box-drawing glyphs, and the characters that the        *)
(* literals of refined-tree-converter.py hold in their place.              *)

VBAR == "u2502"
TEE == "u251c"
ELBOW == "u2514"
HBAR == "u2500"
SP == " "
TAB == "tab"
HASH == "#"
DOT == "."
SLASH == "/"
BACKSLASH == "bslash"
A_CIRC == "u00e2"
RDQUO == "u201d"
SBQUO == "u201a"
OE == "u0153"
EURO == "u20ac"

\* Python's \s and str.strip(): the whitespace a line can hold
Whitespace == {SP, TAB}

\* the character class [\s│├└─] of the three regular expressions
IndentChars == Whitespace \cup {VBAR, TEE, ELBOW, HBAR}

FourSpaces == <<SP, SP, SP, SP>>

\* the four literals counted by indent.count(...) in _process_line
CountedTokens_Garbled(i) ==
    << <<A_CIRC, RDQUO, SBQUO>>, FourSpaces,
       <<A_CIRC, RDQUO, OE>>, <<A_CIRC, RDQUO, RDQUO>> >>

CountedTokens(i) ==
    IF i = "app"
    THEN << <<VBAR>>, FourSpaces, <<TEE>>, <<ELBOW>> >>
    ELSE << <<A_CIRC, RDQUO, SBQUO>>, FourSpaces,
            <<A_CIRC, RDQUO, OE>>, <<A_CIRC, RDQUO, RDQUO>> >>

---------------------------------------------------------------------------
(* Strings *)

\* the length of the longest prefix of s made of characters of set
PrefixLen(s, set) ==
    IF \A i \in 1..Len(s) : s[i] \in set
    THEN Len(s)
    ELSE (CHOOSE i \in 1..Len(s) :
              s[i] \notin set /\ \A j \in 1..(i - 1) : s[j] \in set) - 1

\* the length of the longest suffix of s made of characters of set
SuffixLen(s, set) ==
    IF \A i \in 1..Len(s) : s[i] \in set
    THEN Len(s)
    ELSE Len(s) - (CHOOSE i \in 1..Len(s) :
              s[i] \notin set /\ \A j \in (i + 1)..Len(s) : s[j] \in set)

LStrip(s, set) == SubSeq(s, PrefixLen(s, set) + 1, Len(s))

RStrip(s, set) == SubSeq(s, 1, Len(s) - SuffixLen(s, set))

\* str.strip()
Strip(s) == RStrip(LStrip(s, Whitespace), Whitespace)

\* str.count(pat): the non-overlapping occurrences of pat in s, from i on
RECURSIVE CountFrom(_, _, _)
CountFrom(s, pat, i) ==
    IF i + Len(pat) - 1 > Len(s) THEN 0
    ELSE IF SubSeq(s, i, i + Len(pat) - 1) = pat
         THEN 1 + CountFrom(s, pat, i + Len(pat))
         ELSE CountFrom(s, pat, i + 1)

Count(s, pat) == CountFrom(s, pat, 1)

\* the first index of character c in s, 0 when there is none
IndexOf(s, c) ==
    IF \E i \in 1..Len(s) : s[i] = c
    THEN CHOOSE i \in 1..Len(s) : s[i] = c /\ \A j \in 1..(i - 1) : s[j] # c
    ELSE 0

Contains(s, c) == \E i \in 1..Len(s) : s[i] = c

\* str.replace('\\', '/')
ReplaceBackslash(s) == [i \in 1..Len(s) |-> IF s[i] = BACKSLASH THEN SLASH ELSE s[i]]

\* os.path.join(a, b) on POSIX
OsPathJoin(a, b) ==
    IF b # <<>> /\ b[1] = SLASH THEN b
    ELSE IF a = <<>> \/ a[Len(a)] = SLASH THEN a \o b
    ELSE a \o <<SLASH>> \o b

---------------------------------------------------------------------------
(* TreeParser._process_line *)

None == [skip |-> TRUE, level |-> 0, name |-> <<>>, is_file |-> FALSE, comment |-> <<>>]

\* indent_match.group(1), or '' when the line starts with no indent character
Indent(l) == SubSeq(l, 1, PrefixLen(l, IndentChars))

\* the level heuristic: the sum of the four counts
IndentLevel(i, indent) ==
    LET t == CountedTokens(i)
    IN Count(indent, t[1]) + Count(indent, t[2]) + Count(indent, t[3]) + Count(indent, t[4])

\* line.split('#', 1)[0], or the whole line
LineContent(l) ==
    IF Contains(l, HASH) THEN SubSeq(l, 1, IndexOf(l, HASH) - 1) ELSE l

\* line.split('#', 1)[1], or ''
LineComment(l) ==
    IF Contains(l, HASH) THEN SubSeq(l, IndexOf(l, HASH) + 1, Len(l)) ELSE <<>>

\* re.sub(r'^[│├└─\s]+', '', line_content).strip().rstrip('/')
NameOf(l) == RStrip(Strip(LStrip(LineContent(l), IndentChars)), {SLASH})

\* '.' in name and not name.endswith('/')
IsFileName(name) == Contains(name, DOT) /\ ~(name # <<>> /\ name[Len(name)] = SLASH)

ProcessLine(i, l) ==
    IF Strip(l) = <<>> THEN None
    ELSE IF NameOf(l) = <<>> THEN None
    ELSE [skip |-> FALSE,
          level |-> IndentLevel(i, Indent(l)),
          name |-> NameOf(l),
          is_file |-> IsFileName(NameOf(l)),
          comment |-> Strip(LineComment(l))]

---------------------------------------------------------------------------
(* TreeParser.parse_tree_from_string *)

DefaultRootName == <<"m", "y", "-", "p", "r", "o", "j", "e", "c", "t">>

\* [line for line in tree_string.splitlines() if line.strip() != '']
NonBlankLines(t) == SelectSeq(t, LAMBDA l : Strip(l) # <<>>)

\* lines and not re.match(r'^[\s│├└─]+', lines[0])
HasRootLine(ls) == ls # <<>> /\ PrefixLen(ls[1], IndentChars) = 0

RootName(ls) ==
    IF HasRootLine(ls) THEN RStrip(Strip(ls[1]), {SLASH}) ELSE DefaultRootName

BodyLines(ls) == IF HasRootLine(ls) THEN Tail(ls) ELSE ls

Sentinel == [level |-> -1, path |-> <<>>, owner |-> 0]

RootNode(name) ==
    [name |-> name, path |-> name, is_file |-> FALSE, level |-> 0,
     comment |-> <<>>, parent |-> 0]

\* the state after structure.append(root) and stack.append(root's frame)
ParserStart(ls) ==
    [nodes |-> << RootNode(RootName(ls)) >>,
     stack |-> << Sentinel, [level |-> 0, path |-> RootName(ls), owner |-> 1] >>]

\* level += 1  # account for root level
TargetLevel_NoOffset(level) == level

TargetLevel(level) == level + 1

\* while len(stack) > 1 and stack[-1]['level'] >= level: stack.pop()
RECURSIVE PopTo(_, _)
PopTo(stk, level) ==
    IF Len(stk) > 1 /\ stk[Len(stk)].level >= level
    THEN PopTo(SubSeq(stk, 1, Len(stk) - 1), level)
    ELSE stk

\* if not is_file: stack.append(...)
PushFrame_Always(stk, node, idx) ==
    Append(stk, [level |-> node.level, path |-> node.path, owner |-> idx])

PushFrame(stk, node, idx) ==
    IF ~node.is_file
    THEN Append(stk, [level |-> node.level, path |-> node.path, owner |-> idx])
    ELSE stk

\* one iteration of the for loop, for a line that was not skipped
AddNode(st, res) ==
    LET level == TargetLevel(res.level)
        stk == PopTo(st.stack, level)
        parent == stk[Len(stk)]
        node == [name |-> res.name,
                 path |-> ReplaceBackslash(OsPathJoin(parent.path, res.name)),
                 is_file |-> res.is_file,
                 level |-> level,
                 comment |-> res.comment,
                 parent |-> parent.owner]
    IN [nodes |-> Append(st.nodes, node),
        stack |-> PushFrame(stk, node, Len(st.nodes) + 1)]

\* one iteration of the for loop
LoopBody(i, st, l) ==
    IF ProcessLine(i, l).skip THEN st ELSE AddNode(st, ProcessLine(i, l))

RECURSIVE ParseLines(_, _, _)
ParseLines(i, st, ls) ==
    IF ls = <<>> THEN st ELSE ParseLines(i, LoopBody(i, st, Head(ls)), Tail(ls))

\* the whole function: the nodes of the structure it returns
ParseTree(i, t) ==
    ParseLines(i, ParserStart(NonBlankLines(t)), BodyLines(NonBlankLines(t))).nodes

\* item['children'] of node p; p = 0 is the structure list itself
Children(ns, p) == SelectSeq([k \in 1..Len(ns) |-> k], LAMBDA k : ns[k].parent = p)

---------------------------------------------------------------------------
(* print_structure *)

\* prefix = '└── ' if is_last else '├── '
ElbowPrefix(i) ==
    IF i = "app" THEN <<ELBOW, HBAR, HBAR, SP>>
    ELSE <<A_CIRC, RDQUO, RDQUO, A_CIRC, RDQUO, EURO, A_CIRC, RDQUO, EURO, SP>>

TeePrefix(i) ==
    IF i = "app" THEN <<TEE, HBAR, HBAR, SP>>
    ELSE <<A_CIRC, RDQUO, OE, A_CIRC, RDQUO, EURO, A_CIRC, RDQUO, EURO, SP>>

\* icon = '📄' if item['is_file'] else '📁'
FileIcon(i) ==
    IF i = "app" THEN <<"u1f4c4">> ELSE <<"u011f", "u0178", "u201c", "u201e">>

DirIcon(i) ==
    IF i = "app" THEN <<"u1f4c1">> ELSE <<"u011f", "u0178", "u201c">>

\* new_indent = indent + ('    ' if is_last else '│   ')
Continuation(i, is_last) ==
    IF is_last THEN FourSpaces
    ELSE IF i = "app" THEN <<VBAR, SP, SP, SP>>
    ELSE <<A_CIRC, RDQUO, SBQUO, SP, SP, SP>>

\* the line printed for one item
ItemLine(i, item, indent, is_last) ==
    indent \o (IF is_last THEN ElbowPrefix(i) ELSE TeePrefix(i))
           \o (IF item.is_file THEN FileIcon(i) ELSE DirIcon(i))
           \o <<SP>> \o item.name
           \o (IF item.comment # <<>> THEN <<SP, SP, HASH, SP>> \o item.comment ELSE <<>>)

\* the lines printed for the items (indices into ns) under indent
RECURSIVE PrintItems(_, _, _, _)
PrintItems(i, ns, items, indent) ==
    IF items = <<>> THEN <<>>
    ELSE LET k == Head(items)
             is_last == Len(items) = 1
         IN << ItemLine(i, ns[k], indent, is_last) >>
            \o (IF Children(ns, k) # <<>>
                THEN PrintItems(i, ns, Children(ns, k), indent \o Continuation(i, is_last))
                ELSE <<>>)
            \o PrintItems(i, ns, Tail(items), indent)

PrintStructure(i, ns) == PrintItems(i, ns, Children(ns, 0), <<>>)

---------------------------------------------------------------------------
(* The filesystem.  A path is the sequence of its parts below "/"; the     *)
(* filesystem is the set of its entries, and "/" is always a directory.    *)

DOTDOT == <<DOT, DOT>>

RECURSIVE SplitSlash(_)
SplitSlash(s) ==
    IF s = <<>> THEN <<>>
    ELSE IF IndexOf(s, SLASH) = 0 THEN << s >>
    ELSE << SubSeq(s, 1, IndexOf(s, SLASH) - 1) >>
         \o SplitSlash(SubSeq(s, IndexOf(s, SLASH) + 1, Len(s)))

\* the parts pathlib keeps of a string: no empty part, no '.'
Parts(s) == SelectSeq(SplitSlash(s), LAMBDA p : p # <<>> /\ p # <<DOT>>)

\* current_path / item['name']: an absolute name replaces the path
Truediv(cur, name) ==
    IF name # <<>> /\ name[1] = SLASH THEN Parts(name) ELSE cur \o Parts(name)

\* Path.parent
PathParent(p) == IF p = <<>> THEN p ELSE SubSeq(p, 1, Len(p) - 1)

EntryKind(f, p) ==
    IF p = <<>> THEN "dir"
    ELSE IF \E e \in f : e.path = p THEN (CHOOSE e \in f : e.path = p).kind
    ELSE "none"

\* the directory a walk is in after one more part
StepInto(cur, part) == IF part = DOTDOT THEN PathParent(cur) ELSE Append(cur, part)

\* the error of a walk that meets something of this kind where a directory must be
WalkError(kind) == IF kind = "none" THEN "ENOENT" ELSE "ENOTDIR"

\* the kernel's walk through parts, each of which must be a directory
RECURSIVE WalkDirs(_, _, _)
RECURSIVE WalkInto(_, _, _)
WalkDirs(f, cur, parts) ==
    IF parts = <<>> THEN [err |-> "ok", path |-> cur]
    ELSE WalkInto(f, StepInto(cur, Head(parts)), Tail(parts))

WalkInto(f, nxt, rest) ==
    IF EntryKind(f, nxt) = "dir" THEN WalkDirs(f, nxt, rest)
    ELSE [err |-> WalkError(EntryKind(f, nxt)), path |-> nxt]

StatEntry(f, target) == [err |-> "ok", path |-> target, kind |-> EntryKind(f, target)]

\* what the last part of a path names, after the walk w through the parts before it
StatLast(f, w, last) ==
    IF w.err # "ok" THEN [err |-> w.err, path |-> w.path, kind |-> "none"]
    ELSE StatEntry(f, StepInto(w.path, last))

\* where path p leads, and what is there
Stat(f, p) ==
    IF p = <<>> THEN StatEntry(f, p)
    ELSE StatLast(f, WalkDirs(f, <<>>, PathParent(p)), p[Len(p)])

StatIsDir(s) == s.err = "ok" /\ s.kind = "dir"

StatExists(s) == s.err = "ok" /\ s.kind # "none"

\* Path.is_dir(), Path.exists()
IsDir(f, p) == StatIsDir(Stat(f, p))

Exists(f, p) == StatExists(Stat(f, p))

\* os.mkdir of the path whose stat is s
MkdirEntry(f, den, s) ==
    IF s.err # "ok" THEN [fs |-> f, err |-> s.err]
    ELSE IF s.kind # "none" THEN [fs |-> f, err |-> "EEXIST"]
    ELSE IF s.path \in den THEN [fs |-> f, err |-> "EACCES"]
    ELSE [fs |-> f \cup {[path |-> s.path, kind |-> "dir", content |-> <<>>]},
          err |-> "ok"]

\* os.mkdir(p)
OsMkdir(f, den, p) == MkdirEntry(f, den, Stat(f, p))

\* except OSError: if not exist_ok or not self.is_dir(): raise
TolerateExisting(f, p, r) ==
    IF r.err = "ok" \/ r.err = "ENOENT" THEN r
    ELSE IF IsDir(f, p) THEN [fs |-> f, err |-> "ok"]
    ELSE r

\* self.mkdir(mode, parents=False, exist_ok=True)
MkdirExistOk(f, den, p) == TolerateExisting(f, p, OsMkdir(f, den, p))

\* Path.mkdir(parents=True, exist_ok=True)
RECURSIVE PathMkdir(_, _, _)
RECURSIVE MkdirParents(_, _, _, _)
PathMkdir(f, den, p) == MkdirParents(f, den, p, MkdirExistOk(f, den, p))

\* the second try, once self.parent.mkdir(parents=True, exist_ok=True) gave q
MkdirAgain(den, p, q) == IF q.err # "ok" THEN q ELSE MkdirExistOk(q.fs, den, p)

\* except FileNotFoundError: the parents are made, then the directory
MkdirParents(f, den, p, r) ==
    IF r.err # "ENOENT" \/ PathParent(p) = p THEN r
    ELSE MkdirAgain(den, p, PathMkdir(f, den, PathParent(p)))

\* open(p, 'w').write(content), for the path whose stat is s
WriteEntry(f, den, s, content) ==
    IF s.err # "ok" THEN [fs |-> f, err |-> s.err]
    ELSE IF s.kind = "dir" THEN [fs |-> f, err |-> "EISDIR"]
    ELSE IF s.kind = "none" /\ s.path \in den THEN [fs |-> f, err |-> "EACCES"]
    ELSE [fs |-> {e \in f : e.path # s.path}
                 \cup {[path |-> s.path, kind |-> "file", content |-> content]},
          err |-> "ok"]

\* Path.write_text(content)
WriteText(f, den, p, content) == WriteEntry(f, den, Stat(f, p), content)

---------------------------------------------------------------------------
(* FolderCreator *)

Marker == << "Auto-generated file" >>

\* the text written to a file, as its lines
Content(item) ==
    (IF item.comment # <<>> THEN << <<HASH, SP>> \o item.comment >> ELSE <<>>)
    \o << <<HASH, SP>> \o item.name, Marker >>

\* if not full_path.exists(): full_path.write_text(content)
WriteAlways(f, den, p, content) == WriteText(f, den, p, content)

WriteIfAbsent(f, den, p, content) ==
    IF ~Exists(f, p) THEN WriteText(f, den, p, content) ELSE [fs |-> f, err |-> "ok"]

\* the rest of _create_file once the parent's mkdir gave a; in a dry run
\* nothing is written
WriteAfterMkdir(den, dry, p, item, a) ==
    IF a.err # "ok" \/ dry THEN a ELSE WriteIfAbsent(a.fs, den, p, Content(item))

\* app.py _create_file: the parent is made unless dry_run; an error leaves
\* the method
CreateFileApp(f, den, dry, p, item) ==
    IF dry THEN [fs |-> f, err |-> "ok"]
    ELSE WriteAfterMkdir(den, dry, p, item, PathMkdir(f, den, PathParent(p)))

\* except Exception as e: logging.error(...)
Caught(r) == [fs |-> r.fs, err |-> "ok"]

\* refined-tree-converter.py _create_file: the parent is made first, and
\* every error is caught and logged
CreateFileRefined(f, den, dry, p, item) ==
    Caught(WriteAfterMkdir(den, dry, p, item, PathMkdir(f, den, PathParent(p))))

CreateFile(i, f, den, dry, p, item) ==
    IF i = "app" THEN CreateFileApp(f, den, dry, p, item)
    ELSE CreateFileRefined(f, den, dry, p, item)

\* if not self.dry_run: full_path.mkdir(parents=True, exist_ok=True)
CreateDir(f, den, dry, p) ==
    IF dry THEN [fs |-> f, err |-> "ok"] ELSE PathMkdir(f, den, p)

\* the body of the for loop for one item, up to the recursive call
CreateOne(i, f, den, dry, p, item) ==
    IF item.is_file THEN CreateFile(i, f, den, dry, p, item)
    ELSE CreateDir(f, den, dry, p)

\* whether an exception raised in the body of the for loop leaves create_structure
Propagates(i) == i = "app"

\* the frames left once the loops that have no item left have returned
RECURSIVE Unwind(_)
Unwind(cs) ==
    IF cs # <<>> /\ cs[Len(cs)].items = <<>>
    THEN Unwind(SubSeq(cs, 1, Len(cs) - 1))
    ELSE cs

\* the top frame moved past its first item
Advance(cs) ==
    [cs EXCEPT ![Len(cs)] = [items |-> Tail(cs[Len(cs)].items), at |-> cs[Len(cs)].at]]

---------------------------------------------------------------------------
(* Inputs *)

\* the longest text drawn line by line from LineSet
MaxLines == 3

RootLine == <<"r">>

FileLine == <<TEE, HBAR, HBAR, SP, "a", DOT, "p", "y", SP, HASH, SP, "c">>

DirLine == <<TEE, HBAR, HBAR, SP, "s">>

NestedFileLine == <<VBAR, SP, SP, SP, ELBOW, HBAR, HBAR, SP, "b", DOT, "x">>

NestedDirLine == <<SP, SP, SP, SP, ELBOW, HBAR, HBAR, SP, "d">>

AbsoluteLine == <<TEE, HBAR, HBAR, SP, SLASH, "q">>

DotDotLine == <<TEE, HBAR, HBAR, SP, DOT, DOT, SLASH, DOT, DOT, SLASH, "e", DOT, "x">>

CommentOnlyLine == <<VBAR, SP, SP, SP, HASH, SP, "c">>

LineSet ==
    { RootLine, FileLine, DirLine, NestedFileLine, NestedDirLine,
      AbsoluteLine, DotDotLine, CommentOnlyLine }

\* the sample tree of app.py main()
SampleTree ==
  << <<"m", "y", "-", "p", "r", "o", "j", "e", "c", "t">>,
     <<TEE, HBAR, HBAR, SP, "R", "E", "A", "D", "M", "E", DOT, "m", "d", SP, HASH, SP, "P", "r", "o", "j", "e", "c", "t", SP, "o", "v", "e", "r", "v", "i", "e", "w">>,
     <<TEE, HBAR, HBAR, SP, "s", "r", "c">>,
     <<VBAR, SP, SP, SP, TEE, HBAR, HBAR, SP, "m", "a", "i", "n", DOT, "p", "y", SP, HASH, SP, "E", "n", "t", "r", "y", SP, "p", "o", "i", "n", "t">>,
     <<VBAR, SP, SP, SP, ELBOW, HBAR, HBAR, SP, "u", "t", "i", "l", "s", DOT, "p", "y", SP, HASH, SP, "H", "e", "l", "p", "e", "r", SP, "f", "u", "n", "c", "t", "i", "o", "n", "s">>,
     <<ELBOW, HBAR, HBAR, SP, "t", "e", "s", "t", "s">>,
     <<SP, SP, SP, SP, ELBOW, HBAR, HBAR, SP, "t", "e", "s", "t", "_", "m", "a", "i", "n", DOT, "p", "y", SP, HASH, SP, "U", "n", "i", "t", SP, "t", "e", "s", "t", "s">> >>

\* the sample tree of refined-tree-converter.py main(), as its file holds it
SampleTreeRefined ==
  << <<"m", "y", "-", "p", "r", "o", "j", "e", "c", "t">>,
     <<A_CIRC, RDQUO, OE, A_CIRC, RDQUO, EURO, A_CIRC, RDQUO, EURO, SP, "R", "E", "A", "D", "M", "E", DOT, "m", "d", SP, HASH, SP, "P", "r", "o", "j", "e", "c", "t", SP, "o", "v", "e", "r", "v", "i", "e", "w">>,
     <<A_CIRC, RDQUO, OE, A_CIRC, RDQUO, EURO, A_CIRC, RDQUO, EURO, SP, "s", "r", "c">>,
     <<A_CIRC, RDQUO, SBQUO, SP, SP, SP, A_CIRC, RDQUO, OE, A_CIRC, RDQUO, EURO, A_CIRC, RDQUO, EURO, SP, "m", "a", "i", "n", DOT, "p", "y", SP, HASH, SP, "E", "n", "t", "r", "y", SP, "p", "o", "i", "n", "t">>,
     <<A_CIRC, RDQUO, SBQUO, SP, SP, SP, A_CIRC, RDQUO, RDQUO, A_CIRC, RDQUO, EURO, A_CIRC, RDQUO, EURO, SP, "u", "t", "i", "l", "s", DOT, "p", "y", SP, HASH, SP, "H", "e", "l", "p", "e", "r", SP, "f", "u", "n", "c", "t", "i", "o", "n", "s">>,
     <<A_CIRC, RDQUO, RDQUO, A_CIRC, RDQUO, EURO, A_CIRC, RDQUO, EURO, SP, "t", "e", "s", "t", "s">>,
     <<SP, SP, SP, SP, A_CIRC, RDQUO, RDQUO, A_CIRC, RDQUO, EURO, A_CIRC, RDQUO, EURO, SP, "t", "e", "s", "t", "_", "m", "a", "i", "n", DOT, "p", "y", SP, HASH, SP, "U", "n", "i", "t", SP, "t", "e", "s", "t", "s">> >>

\* a text with a blank line, a tab, trailing separators and plain indentation
OddText ==
  << <<"p", "r", "o", "j", SLASH>>,
     <<SP, SP>>,
     <<TAB, TEE, HBAR, HBAR, SP, "l", "i", "b", SLASH>>,
     <<SP, SP, SP, SP, SP, SP, SP, SP, "x", DOT, "h">>,
     <<VBAR, SP, SP, SP, TEE, HBAR, HBAR, SP, "v", "1", DOT, "2", SLASH, SP, SP, HASH, SP, "k", SP, HASH, "2">>,
     <<"t", "o", "p">> >>

Texts ==
    UNION { [1..n -> LineSet] : n \in 0..MaxLines }
    \cup { SampleTree, SampleTreeRefined, OddText }

\* the resolved base path the caller hands to FolderCreator
Base == << <<"o", "u", "t">> >>

\* what a file that was on disk before the run holds
UserContent == << <<"u", "s", "e", "r">> >>

\* the path of node k as create_structure builds it
RECURSIVE TargetPath(_, _)
TargetPath(ns, k) ==
    Truediv(IF ns[k].parent = 0 THEN Base ELSE TargetPath(ns, ns[k].parent), ns[k].name)

\* a path with its '..' parts taken out
RECURSIVE NormalizeInto(_, _)
NormalizeInto(acc, parts) ==
    IF parts = <<>> THEN acc
    ELSE NormalizeInto(IF Head(parts) = DOTDOT THEN PathParent(acc)
                       ELSE Append(acc, Head(parts)), Tail(parts))

Normalize(p) == NormalizeInto(<<>>, p)

IsPrefix(a, b) == Len(a) <= Len(b) /\ SubSeq(b, 1, Len(a)) = a

\* the filesystem in which p holds a file of the user's, below the base path
DiskWithFile(p) ==
    { [path |-> SubSeq(p, 1, n), kind |-> "dir", content |-> <<>>] : n \in 1..(Len(p) - 1) }
    \cup { [path |-> p, kind |-> "file", content |-> UserContent] }

\* the disks a run can find: the base path alone, or with one file of the
\* user's where node k is to be created; and the paths creation is refused at
Environments(ns) ==
    { [fs |-> {[path |-> Base, kind |-> "dir", content |-> <<>>]}, denied |-> {}] }
    \cup { [fs |-> {[path |-> Base, kind |-> "dir", content |-> <<>>]},
            denied |-> {Normalize(TargetPath(ns, k))}] : k \in 1..Len(ns) }
    \cup { [fs |-> DiskWithFile(Normalize(TargetPath(ns, k))), denied |-> {}] :
             k \in { j \in 1..Len(ns) :
                       /\ IsPrefix(Base, Normalize(TargetPath(ns, j)))
                       /\ Normalize(TargetPath(ns, j)) # Base } }

NoOp == [file |-> FALSE, before |-> "none", err |-> "ok"]

\* what path p holds: "none", "file" or "dir"
Holds(f, p) == IF Stat(f, p).err = "ok" THEN Stat(f, p).kind ELSE "none"

---------------------------------------------------------------------------
(* The run *)

Init ==
    /\ impl \in {"app", "refined"}
    /\ text \in Texts
    /\ pc = "start"
    /\ lines = <<>>
    /\ stack = <<>>
    /\ nodes = <<>>
    /\ line = <<>>
    /\ result = None
    /\ rendered = <<>>
    /\ reparsed = <<>>
    /\ dry_run = FALSE
    /\ denied = {}
    /\ fs0 = {}
    /\ fs = {}
    /\ fs1 = {}
    /\ pass = 0
    /\ cstack = <<>>
    /\ lastOp = NoOp

\* parse_tree_from_string up to its for loop
ParseBegin ==
    /\ pc = "start"
    /\ pc' = "loop"
    /\ lines' = BodyLines(NonBlankLines(text))
    /\ nodes' = ParserStart(NonBlankLines(text)).nodes
    /\ stack' = ParserStart(NonBlankLines(text)).stack
    /\ UNCHANGED << impl, text, line, result, renderVars, createVars >>

\* one iteration of the for loop
ParseLine ==
    /\ pc = "loop"
    /\ lines # <<>>
    /\ line' = Head(lines)
    /\ result' = ProcessLine(impl, Head(lines))
    /\ nodes' = LoopBody(impl, [nodes |-> nodes, stack |-> stack], Head(lines)).nodes
    /\ stack' = LoopBody(impl, [nodes |-> nodes, stack |-> stack], Head(lines)).stack
    /\ lines' = Tail(lines)
    /\ UNCHANGED << impl, text, pc, renderVars, createVars >>

\* return structure
ParseReturn ==
    /\ pc = "loop"
    /\ lines = <<>>
    /\ pc' = "parsed"
    /\ stack' = <<>>
    /\ UNCHANGED << impl, text, lines, nodes, line, result, renderVars, createVars >>

\* print_structure(structure)
Render ==
    /\ pc = "parsed"
    /\ pc' = "rendered"
    /\ rendered' = PrintStructure(impl, nodes)
    /\ UNCHANGED << impl, text, parseVars, reparsed, createVars >>

\* the printed text parsed again
Reparse ==
    /\ pc = "rendered"
    /\ pc' = "reparsed"
    /\ reparsed' = ParseTree(impl, rendered)
    /\ UNCHANGED << impl, text, parseVars, rendered, createVars >>

\* the first frame of create_structure(structure)
FirstFrame == Unwind(<< [items |-> Children(nodes, 0), at |-> Base] >>)

\* FolderCreator(base_path, dry_run).create_structure(structure) is called
NewFolderCreator ==
    /\ pc = "parsed"
    /\ pc' = "create"
    /\ \E dry \in BOOLEAN, env \in Environments(nodes) :
          /\ dry_run' = dry
          /\ denied' = env.denied
          /\ fs0' = env.fs
          /\ fs' = env.fs
    /\ fs1' = {}
    /\ pass' = 1
    /\ cstack' = FirstFrame
    /\ lastOp' = NoOp
    /\ UNCHANGED << impl, text, parseVars, renderVars >>

\* the item the innermost loop of create_structure is at, and its full_path
CurrentItem == Head(cstack[Len(cstack)].items)

FullPath == Truediv(cstack[Len(cstack)].at, nodes[CurrentItem].name)

\* the frames after the item: create_structure(item['children'], full_path)
\* is entered for a directory that was made, and the loops that have no
\* item left return
FramesAfter(cs, k, p, descend) ==
    IF descend
    THEN Unwind(Append(Advance(cs), [items |-> Children(nodes, k), at |-> p]))
    ELSE Unwind(Advance(cs))

\* one iteration of the for loop of create_structure
CreateItem ==
    /\ pc = "create"
    /\ cstack # <<>>
    /\ \E r \in { CreateOne(impl, fs, denied, dry_run, FullPath, nodes[CurrentItem]) } :
          /\ fs' = r.fs
          /\ lastOp' = [file |-> nodes[CurrentItem].is_file,
                        before |-> Holds(fs, FullPath),
                        err |-> r.err]
          /\ IF r.err # "ok" /\ Propagates(impl)
             THEN pc' = "raised" /\ cstack' = <<>>
             ELSE \E next \in { FramesAfter(cstack, CurrentItem, FullPath,
                                            ~nodes[CurrentItem].is_file /\ r.err = "ok") } :
                     /\ cstack' = next
                     /\ pc' = IF next = <<>> THEN "created" ELSE "create"
    /\ UNCHANGED << impl, text, parseVars, renderVars, dry_run, denied, fs0, fs1, pass >>

\* the same forest is materialized a second time into the same base path
CreateAgain ==
    /\ pc \in {"created", "raised"}
    /\ pass = 1
    /\ pc' = "create"
    /\ pass' = 2
    /\ fs1' = fs
    /\ cstack' = FirstFrame
    /\ lastOp' = NoOp
    /\ UNCHANGED << impl, text, parseVars, renderVars, dry_run, denied, fs0, fs >>

Next ==
    \/ ParseBegin
    \/ ParseLine
    \/ ParseReturn
    \/ Render
    \/ Reparse
    \/ NewFolderCreator
    \/ CreateItem
    \/ CreateAgain

Spec == Init /\ [][Next]_vars

---------------------------------------------------------------------------
(* Properties *)

\* the nodes of a forest in pre-order, each as (name, level, isFile, comment)
RECURSIVE FlattenItems(_, _)
FlattenItems(ns, items) ==
    IF items = <<>> THEN <<>>
    ELSE << << ns[Head(items)].name, ns[Head(items)].level,
               ns[Head(items)].is_file, ns[Head(items)].comment >> >>
         \o FlattenItems(ns, Children(ns, Head(items)))
         \o FlattenItems(ns, Tail(items))

Flatten(ns) == FlattenItems(ns, Children(ns, 0))

\* node k lies below node a
RECURSIVE IsBelow(_, _, _)
IsBelow(ns, k, a) ==
    /\ ns[k].parent # 0
    /\ (ns[k].parent = a \/ IsBelow(ns, ns[k].parent, a))

\* the kind of text the tree command prints: an unindented root line, then
\* lines made of groups of four characters, '│   ' or '    ' for the levels
\* above and '├── ' or '└── ' for the line's own, then a name; a line is at
\* most one level deeper than the line before it, and only below a directory
Group(l, g) == SubSeq(l, 4 * g - 3, 4 * g)

Depth(l) == Len(Indent(l)) \div 4

WellFormedLine(l) ==
    /\ Len(Indent(l)) >= 4
    /\ Len(Indent(l)) % 4 = 0
    /\ Group(l, Depth(l)) \in { <<TEE, HBAR, HBAR, SP>>, <<ELBOW, HBAR, HBAR, SP>> }
    /\ \A g \in 1..(Depth(l) - 1) : Group(l, g) \in { <<VBAR, SP, SP, SP>>, FourSpaces }
    /\ NameOf(l) # <<>>

WellFormedText(t) ==
    /\ t # <<>>
    /\ Indent(t[1]) = <<>>
    /\ NameOf(t[1]) # <<>>
    /\ \A n \in 2..Len(t) :
          /\ WellFormedLine(t[n])
          /\ Depth(t[n]) <= (IF n = 2 THEN 1 ELSE Depth(t[n - 1]) + 1)
          /\ (n > 2 /\ Depth(t[n]) = Depth(t[n - 1]) + 1) => ~IsFileName(NameOf(t[n - 1]))

\* C1: for a well-formed text, the root of the parsed forest has level 0 and
\* every other node's level is its parent's level + 1
C1_LevelIsParentLevelPlusOne ==
    (pc = "parsed" /\ WellFormedText(text)) =>
        \A k \in 1..Len(nodes) :
            IF nodes[k].parent = 0 THEN nodes[k].level = 0
            ELSE nodes[k].level = nodes[nodes[k].parent].level + 1

\* C2: with dry_run = True create_structure changes nothing on disk
C2_DryRunChangesNothing ==
    (pass >= 1 /\ dry_run) => fs = fs0

\* C3: in real mode an error at one node never leaves create_structure
C3_NoErrorLeavesCreateStructure ==
    (pass >= 1 /\ ~dry_run) => pc # "raised"

\* C4: in real mode a file that is already at a file node's path keeps its
\* content and is no error; a second materialization of the same forest
\* leaves the disk as the first one left it, and a directory that is already
\* there is no error
C4_ExistingFilesAreKept ==
    (pass >= 1 /\ ~dry_run) =>
        /\ \A e \in fs0 : e.kind = "file" => e \in fs
        /\ (lastOp.file /\ lastOp.before # "none") => lastOp.err = "ok"
        /\ (~lastOp.file /\ lastOp.before = "dir") => lastOp.err = "ok"
        /\ pass = 2 => fs = fs1

\* C4's case: the second run has ended, a file of the user's was at a file
\* node's path, and the first run wrote another file
C4_Witness ==
    /\ pass = 2
    /\ pc = "created"
    /\ ~dry_run
    /\ \E e \in fs0 : \E k \in 1..Len(nodes) :
          /\ e.kind = "file"
          /\ nodes[k].is_file
          /\ Normalize(TargetPath(nodes, k)) = e.path
    /\ \E e \in fs1 \ fs0 : e.kind = "file"

\* C5: the printed text of a parsed forest parses to a forest with the same
\* pre-order sequence of (name, level, isFile, comment)
C5_RoundTrip ==
    pc = "reparsed" => Flatten(reparsed) = Flatten(nodes)

\* the sample tree built into the script that runs
BuiltInSample(i) == IF i = "app" THEN SampleTree ELSE SampleTreeRefined

README_md == <<"R", "E", "A", "D", "M", "E", DOT, "m", "d">>
src == <<"s", "r", "c">>
main_py == <<"m", "a", "i", "n", DOT, "p", "y">>
utils_py == <<"u", "t", "i", "l", "s", DOT, "p", "y">>
tests == <<"t", "e", "s", "t", "s">>
test_main_py == <<"t", "e", "s", "t", "_", "m", "a", "i", "n", DOT, "p", "y">>

\* the comments of the sample tree's files, in the order of its lines
SampleComments ==
    << <<"P", "r", "o", "j", "e", "c", "t", SP, "o", "v", "e", "r", "v", "i", "e", "w">>,
       <<"E", "n", "t", "r", "y", SP, "p", "o", "i", "n", "t">>,
       <<"H", "e", "l", "p", "e", "r", SP, "f", "u", "n", "c", "t", "i", "o", "n", "s">>,
       <<"U", "n", "i", "t", SP, "t", "e", "s", "t", "s">> >>

\* the files of a forest, in the order they were created
Files(ns) == SelectSeq([k \in 1..Len(ns) |-> k], LAMBDA k : ns[k].is_file)

\* the directories among the children of node p
DirChildren(ns, p) == SelectSeq(Children(ns, p), LAMBDA k : ~ns[k].is_file)

Names(ns, items) == [n \in 1..Len(items) |-> ns[items[n]].name]

\* what the sample tree must parse to, but for the number of its files
SampleShape(ns) ==
    /\ Children(ns, 0) = <<1>>
    /\ ns[1].name = DefaultRootName
    /\ Names(ns, DirChildren(ns, 1)) = << src, tests >>
    /\ \E s \in 1..Len(ns), t \in 1..Len(ns) :
          /\ ns[s].name = src /\ ns[s].parent = 1
          /\ ns[t].name = tests /\ ns[t].parent = 1
          /\ Names(ns, Children(ns, s)) = << main_py, utils_py >>
          /\ Names(ns, Children(ns, t)) = << test_main_py >>
    /\ Names(ns, Files(ns)) = << README_md, main_py, utils_py, test_main_py >>
    /\ [n \in 1..Len(Files(ns)) |-> ns[Files(ns)[n]].comment] = SampleComments

\* C6 as stated: the built-in sample tree parses to one root my-project with
\* the directories src and tests, main.py and utils.py in src, test_main.py
\* in tests, every comment kept, and 3 file nodes in total
C6_SampleTreeAsStated ==
    (pc = "parsed" /\ text = BuiltInSample(impl)) =>
        SampleShape(nodes) /\ Len(Files(nodes)) = 3

\* C6 as amended: app.py parses its sample tree to one root my-project with
\* the directories src and tests, README.md in the root, main.py and
\* utils.py in src, test_main.py in tests, every comment kept: 4 file nodes
C6_SampleTreeOfApp ==
    (pc = "parsed" /\ impl = "app" /\ text = SampleTree) =>
        /\ SampleShape(nodes)
        /\ Len(Files(nodes)) = 4
        /\ \E k \in 1..Len(nodes) : nodes[k].name = README_md /\ nodes[k].parent = 1

C6_Witness ==
    pc = "parsed" /\ impl = "app" /\ text = SampleTree /\ Len(nodes) = 7

\* the forest invariant of C7, for the nodes ns of a parse
OneRoot(ns) ==
    /\ Children(ns, 0) = <<1>>
    /\ ~ns[1].is_file
    /\ ns[1].level = 0
    /\ \A k \in 2..Len(ns) : IsBelow(ns, k, 1)

\* C7: whatever the text, the forest has exactly one element, a directory at
\* level 0, every other node lies below it, and the root's frame stays on
\* the stack right above the sentinel
C7_ExactlyOneRoot ==
    /\ pc \in {"loop", "parsed"} => OneRoot(nodes)
    /\ pc = "loop" => Len(stack) >= 2 /\ stack[1] = Sentinel /\ stack[2].owner = 1
    /\ pc = "reparsed" => OneRoot(reparsed)

\* C7's case: no unindented first line, and a line classified at level 0
C7_Witness ==
    /\ pc = "parsed"
    /\ ~HasRootLine(NonBlankLines(text))
    /\ nodes[1].name = DefaultRootName
    /\ \E k \in 2..Len(nodes) : nodes[k].level = 1 /\ nodes[k].parent = 1

\* the frames hold directories only, at strictly increasing levels
StackIsOpenDirectories(stk, ns) ==
    /\ \A n \in 2..Len(stk) : ~ns[stk[n].owner].is_file /\ ns[stk[n].owner].level = stk[n].level
    /\ \A n \in 1..(Len(stk) - 1) : stk[n].level < stk[n + 1].level

\* the owner of the topmost frame whose level is below level
NearestOpen(stk, level) ==
    stk[CHOOSE n \in 1..Len(stk) :
            stk[n].level < level /\ \A m \in (n + 1)..Len(stk) : stk[m].level >= level].owner

\* C8: the frames are directories at strictly increasing levels; a new node
\* goes under the topmost frame whose level is below its own; so every parent
\* is a directory
C8_ParentIsNearestOpenDirectory ==
    [][ /\ pc' = "loop" => StackIsOpenDirectories(stack', nodes')
        /\ \A k \in 2..Len(nodes') : ~nodes'[nodes'[k].parent].is_file
        /\ (pc = "loop" /\ Len(nodes') = Len(nodes) + 1) =>
              nodes'[Len(nodes')].parent = NearestOpen(stack, nodes'[Len(nodes')].level)
      ]_vars

\* C8's case: a line deeper than the file before it went under that file's parent
C8_Witness ==
    /\ pc = "parsed"
    /\ \E k \in 2..(Len(nodes) - 1) :
          /\ nodes[k].is_file
          /\ nodes[k + 1].level > nodes[k].level
          /\ nodes[k + 1].parent = nodes[k].parent

\* the sum the claim states: the vertical bars, tees and elbows of the
\* indentation run, and its groups of four spaces
GlyphSum(indent) ==
    Cardinality({ n \in 1..Len(indent) : indent[n] \in {VBAR, TEE, ELBOW} })
    + Count(indent, FourSpaces)

\* C9: the level _process_line reports is the number of vertical bars, tees,
\* elbows and four-space groups of the line's indentation run, in both scripts
C9_LevelIsGlyphSum ==
    ~result.skip => result.level = GlyphSum(Indent(line))

\* C10: whatever create_structure creates lies at or below the base path
C10_CreatedBelowBase ==
    \A e \in fs \ fs0 : IsPrefix(Base, e.path)

=============================================================================
